---------------------------- MODULE Spec2Model ----------------------------
(***************************************************************************)
(* Off-chain host emulation engine of ink!: the emulated world (storage,   *)
(* balances, execution context), the recorder (events, printlns, access    *)
(* counters) and the host functions of crates/engine/src/ext.rs, with the  *)
(* typed backend of crates/env/src/engine/experimental_off_chain/impls.rs. *)
(*                                                                         *)
(* Byte strings are sequences of naturals 0..255.  Account ids and storage *)
(* keys are byte strings; the 32-byte width of the ABI is scaled to one    *)
(* byte.  A Balance is an unsigned integer of BalanceBits bits (the code's *)
(* u128 scaled down so that wrap-around is reachable), encoded as          *)
(* BalanceLen little-endian bytes (16 in the code).                        *)
(*                                                                         *)
(* Each group of host functions has its own specification over the same    *)
(* variables: SpecStorage (set/clear/get_storage), SpecTransfer (transfer, *)
(* terminate), SpecEvents (deposit_event, println, the recorder),          *)
(* SpecUnsupported (the unimplemented host functions) and SpecCodes (the   *)
(* return-code translation).  The variable last records the latest call    *)
(* with its arguments and outcome.  The variables storage .. cells_per_    *)
(* account are the instances of the thread that runs the test; SpecThreads *)
(* runs further threads, whose thread-local instances are ENV_INSTANCE and *)
(* REC_INSTANCE, keyed by thread.                                          *)
(***************************************************************************)
EXTENDS Integers, Sequences, FiniteSets, TLC

\* ------------------------------------------------------------------ bounds
\* Width in bits of a Balance in the model (u128 in the code).
BalanceBits == 2
\* Bytes of the fixed-width encoding of a Balance (16 for the code's u128).
BalanceLen == 2
\* Cap on each per-account access counter of the recorder.
MaxCount == 2
\* Cap on the length of the event log and of the println log.
MaxLog == 2
\* Return codes 0..MaxCode are enumerated (plus a few large ones).
MaxCode == 110

\* --------------------------------------------------------------- data model
\* 2^n, by repeated doubling.
RECURSIVE Pow2(_)
Pow2(n) == IF n = 0 THEN 1 ELSE 2 * Pow2(n - 1)

\* Number of Balance values: arithmetic that wraps does so modulo this.
BalanceModulus == Pow2(BalanceBits)
BalanceMax == BalanceModulus - 1
Balance == 0 .. BalanceMax

\* AccountId: default is the all-zero id.
DefaultAccount == <<0>>
Alice == <<1>>
Bob == <<2>>
Accounts == {DefaultAccount, Alice, Bob}

\* Storage keys and stored values used by the harness.
Keys == {<<66>>, <<67>>}
Values == {<<5>>, <<6, 7>>}
\* Output buffers a caller hands to get_storage: content before the call.
Buffers == {<<0, 0>>, <<9, 9, 9>>, <<0>>}

\* HashMap::insert / HashMap::remove on a map held as a function.
MapInsert(m, k, v) == [x \in (DOMAIN m) \cup {k} |-> IF x = k THEN v ELSE m[x]]
MapRemove(m, k) == [x \in (DOMAIN m) \ {k} |-> m[x]]
EmptyMap == [x \in {} |-> <<>>]

VARIABLES
    storage,            \* EnvInstance.storage: key -> value, present keys only
    balances,           \* EnvInstance.balances: account -> balance
    exec_context,       \* EnvInstance.exec_context
    emitted_events,     \* RecInstance: the event log
    emitted_printlns,   \* RecInstance: the println log
    count_reads,        \* RecInstance: per-account storage reads
    count_writes,       \* RecInstance: per-account storage writes
    cells_per_account,  \* RecInstance: per-account live cells
    sent_events,        \* history: the <<topics, data>> of each deposit recorded
    sent_printlns,      \* history: the content of each println recorded
    ENV_INSTANCE,       \* the thread-local ENV_INSTANCE of each further thread
    REC_INSTANCE,       \* the thread-local recorder of each further thread
    last                \* the last call: operation, arguments, outcome

vars == <<storage, balances, exec_context, emitted_events, emitted_printlns,
          count_reads, count_writes, cells_per_account, sent_events,
          sent_printlns, ENV_INSTANCE, REC_INSTANCE, last>>

env == <<storage, balances, exec_context>>
logs == <<emitted_events, emitted_printlns, sent_events, sent_printlns>>
counters == <<count_reads, count_writes, cells_per_account>>
rec == <<logs, counters>>
thread_locals == <<ENV_INSTANCE, REC_INSTANCE>>

\* The outcome of a call: res is "Ok", an error kind, or "Panic" (the call
\* unwound); out is the output buffer, the panic payload, or <<>>; after is
\* "-", or for a read the operation that preceded it.
Call(op, a1, a2, res, out) ==
    [op |-> op, a1 |-> a1, a2 |-> a2, res |-> res, out |-> out, after |-> "-"]

\* The outcome of a read, which records what it came after.
Read(op, a1, a2, res, out) ==
    [op |-> op, a1 |-> a1, a2 |-> a2, res |-> res, out |-> out, after |-> last.op]

\* ExecContext::default
ExecContextDefault ==
    [caller |-> DefaultAccount, callee |-> DefaultAccount, value_transferred |-> 0]

\* The thread-local instances as first constructed.
Init ==
    /\ storage = EmptyMap
    /\ balances = EmptyMap
    /\ exec_context = ExecContextDefault
    /\ emitted_events = <<>>
    /\ emitted_printlns = <<>>
    /\ count_reads = [a \in Accounts |-> 0]
    /\ count_writes = [a \in Accounts |-> 0]
    /\ cells_per_account = [a \in Accounts |-> 0]
    /\ sent_events = <<>>
    /\ sent_printlns = <<>>
    /\ ENV_INSTANCE = EmptyMap
    /\ REC_INSTANCE = EmptyMap
    /\ last = [op |-> "new", a1 |-> <<>>, a2 |-> <<>>, res |-> "Ok", out |-> <<>>,
               after |-> "-"]

\* ----------------------------------------------------------------- test_api
get_callee == exec_context.callee

\* test_api::set_callee: the harness chooses the executing account.
set_callee(a) ==
    /\ exec_context' = [exec_context EXCEPT !.callee = a]
    /\ last' = Call("set_callee", a, <<>>, "Ok", <<>>)
    /\ UNCHANGED <<thread_locals, storage, balances, rec>>

\* RecInstance::inc_reads / inc_writes / inc_cells_per_account / dec_cells_per_account
inc_reads(a) == [count_reads EXCEPT ![a] = @ + 1]
inc_writes(a) == [count_writes EXCEPT ![a] = @ + 1]
inc_cells_per_account(a) == [cells_per_account EXCEPT ![a] = @ + 1]
dec_cells_per_account(a) == [cells_per_account EXCEPT ![a] = @ - 1]

\* ------------------------------------------------------------- ext: storage
\* A set_storage that counts a live cell only for a key that is new.
set_storage_newcell(key, encoded_value) ==
    /\ count_writes[get_callee] < MaxCount
    /\ count_writes' = inc_writes(get_callee)
    /\ cells_per_account' = IF key \in DOMAIN storage THEN cells_per_account
                            ELSE inc_cells_per_account(get_callee)
    /\ storage' = MapInsert(storage, key, encoded_value)
    /\ last' = Call("set_storage", key, encoded_value, "Ok", <<>>)
    /\ UNCHANGED <<thread_locals, balances, exec_context, logs, count_reads>>

\* A set_storage that writes the value at every key present as well.
set_storage_all(key, encoded_value) ==
    /\ count_writes[get_callee] < MaxCount
    /\ count_writes' = inc_writes(get_callee)
    /\ cells_per_account' = inc_cells_per_account(get_callee)
    /\ storage' = [x \in (DOMAIN storage) \cup {key} |-> encoded_value]
    /\ last' = Call("set_storage", key, encoded_value, "Ok", <<>>)
    /\ UNCHANGED <<thread_locals, balances, exec_context, logs, count_reads>>

\* ext::set_storage
set_storage(key, encoded_value) ==
    /\ count_writes[get_callee] < MaxCount
    /\ count_writes' = inc_writes(get_callee)
    /\ cells_per_account' = inc_cells_per_account(get_callee)
    /\ storage' = MapInsert(storage, key, encoded_value)
    /\ last' = Call("set_storage", key, encoded_value, "Ok", <<>>)
    /\ UNCHANGED <<thread_locals, balances, exec_context, logs, count_reads>>

\* A clear_storage that empties the store.
clear_storage_wipe(key) ==
    /\ count_writes[get_callee] < MaxCount
    /\ count_writes' = inc_writes(get_callee)
    /\ cells_per_account' = dec_cells_per_account(get_callee)
    /\ storage' = EmptyMap
    /\ last' = Call("clear_storage", key, <<>>, "Ok", <<>>)
    /\ UNCHANGED <<thread_locals, balances, exec_context, logs, count_reads>>

\* ext::clear_storage
clear_storage(key) ==
    /\ count_writes[get_callee] < MaxCount
    /\ count_writes' = inc_writes(get_callee)
    /\ cells_per_account' = dec_cells_per_account(get_callee)
    /\ storage' = MapRemove(storage, key)
    /\ last' = Call("clear_storage", key, <<>>, "Ok", <<>>)
    /\ UNCHANGED <<thread_locals, balances, exec_context, logs, count_reads>>

\* output[0..val.len()].copy_from_slice(val): the buffer after the copy.
CopyPrefix(output, val) ==
    val \o SubSeq(output, Len(val) + 1, Len(output))

\* A get_storage that reports the hit but leaves the buffer as it was.
get_storage_outcome_nocopy(s, key, output) ==
    IF key \in DOMAIN s
    THEN Read("get_storage", key, output, "Ok", output)
    ELSE Read("get_storage", key, output, "KeyNotFound", output)

\* A get_storage that copies as much of the value as the buffer holds.
get_storage_outcome_truncate(s, key, output) ==
    IF key \in DOMAIN s
    THEN IF Len(s[key]) <= Len(output)
         THEN Read("get_storage", key, output, "Ok", CopyPrefix(output, s[key]))
         ELSE Read("get_storage", key, output, "Ok",
                   SubSeq(s[key], 1, Len(output)))
    ELSE Read("get_storage", key, output, "KeyNotFound", output)

\* The outcome of ext::get_storage for the store s: the match on
\* storage.get(key); the slice output[0..val.len()] panics past the buffer.
get_storage_outcome(s, key, output) ==
    IF key \in DOMAIN s
    THEN IF Len(s[key]) <= Len(output)
         THEN Read("get_storage", key, output, "Ok", CopyPrefix(output, s[key]))
         ELSE Read("get_storage", key, output, "Panic", <<>>)
    ELSE Read("get_storage", key, output, "KeyNotFound", output)

\* ext::get_storage
get_storage(key, output) ==
    /\ count_reads[get_callee] < MaxCount
    /\ count_reads' = inc_reads(get_callee)
    /\ last' = get_storage_outcome(storage, key, output)
    /\ UNCHANGED <<thread_locals, env, logs, count_writes, cells_per_account>>

\* ------------------------------------------------------------ scale codec

\* Little-endian bytes of n, len of them.
RECURSIVE EncodeLE(_, _)
EncodeLE(n, len) ==
    IF len = 0 THEN <<>> ELSE <<n % 256>> \o EncodeLE(n \div 256, len - 1)

\* The number a little-endian byte string stands for.
RECURSIVE DecodeLE(_)
DecodeLE(bytes) ==
    IF bytes = <<>> THEN 0 ELSE Head(bytes) + 256 * DecodeLE(Tail(bytes))

\* <u128 as scale::Encode>::encode
EncodeBalance(n) == EncodeLE(n, BalanceLen)

\* <u128 as scale::Decode>::decode: the first BalanceLen bytes, an error when
\* the input is shorter.
DecodeBalance(bytes) ==
    IF Len(bytes) < BalanceLen
    THEN [ok |-> FALSE, value |-> 0]
    ELSE [ok |-> TRUE, value |-> DecodeLE(SubSeq(bytes, 1, BalanceLen))]

\* Compact<u32> encoding of a length or count below 2^14.
EncodeCompact(n) ==
    IF n < 64 THEN <<4 * n>> ELSE EncodeLE(4 * n + 1, 2)

\* ------------------------------------------------------------ ext: balances
\* test_api::get_balance: the balance-table entry, an error when there is none.
get_balance(bal, a) ==
    IF a \in DOMAIN bal THEN [ok |-> TRUE, value |-> bal[a]]
    ELSE [ok |-> FALSE, value |-> 0]

\* test_api::set_balance as a harness call.
set_balance(a, n) ==
    /\ balances' = MapInsert(balances, a, n)
    /\ last' = Call("set_balance", a, EncodeBalance(n), "Ok", <<>>)
    /\ UNCHANGED <<thread_locals, storage, exec_context, rec>>

\* A transfer that credits the destination before it looks the contract up.
transfer_outcome_credit_first(bal, contract, account_id, value, checks) ==
    LET dec == DecodeBalance(value)
        old == IF account_id \in DOMAIN bal THEN bal[account_id] ELSE 0
        credited == MapInsert(bal, account_id, (old + dec.value) % BalanceModulus)
    IN  IF ~dec.ok THEN [res |-> "TransferFailed", balances |-> bal]
        ELSE IF contract \notin DOMAIN bal
        THEN [res |-> "TransferFailed", balances |-> credited]
        ELSE [res |-> "Ok",
              balances |-> MapInsert(credited, contract,
                  (credited[contract] - dec.value + BalanceModulus) % BalanceModulus)]

\* A transfer that stores the amount as the destination's balance instead of
\* adding it to the old balance.
transfer_outcome_overwrite(bal, contract, account_id, value, checks) ==
    LET dec == DecodeBalance(value)
    IN  IF ~dec.ok \/ contract \notin DOMAIN bal
        THEN [res |-> "TransferFailed", balances |-> bal]
        ELSE [res |-> "Ok",
              balances |-> MapInsert(
                  MapInsert(bal, contract,
                      (bal[contract] - dec.value + BalanceModulus) % BalanceModulus),
                  account_id, dec.value)]

\* The outcome of ext::transfer on the balance table bal with contract the
\* executing account: res and the table afterwards.  checks tells whether the
\* build traps on arithmetic overflow (overflow-checks) or wraps.
transfer_outcome(bal, contract, account_id, value, checks) ==
    LET dec == DecodeBalance(value)
        increment == dec.value
        dest == account_id
        dest_old_balance ==
            IF get_balance(bal, dest).ok THEN get_balance(bal, dest).value ELSE 0
        contract_old_balance == get_balance(bal, contract).value
        debited ==
            MapInsert(bal, contract,
                      (contract_old_balance - increment + BalanceModulus)
                          % BalanceModulus)
        credited ==
            MapInsert(debited, dest, (dest_old_balance + increment) % BalanceModulus)
    IN  IF ~dec.ok THEN [res |-> "TransferFailed", balances |-> bal]
        ELSE IF ~get_balance(bal, contract).ok
        THEN [res |-> "TransferFailed", balances |-> bal]
        ELSE IF checks /\ increment > contract_old_balance
        THEN [res |-> "Panic", balances |-> bal]
        ELSE IF checks /\ dest_old_balance + increment > BalanceMax
        THEN [res |-> "Panic", balances |-> debited]
        ELSE [res |-> "Ok", balances |-> credited]

\* ext::transfer
transfer(account_id, value) ==
    \E checks \in BOOLEAN :
        LET r == transfer_outcome(balances, get_callee, account_id, value, checks)
        IN  /\ balances' = r.balances
            /\ last' = Call("transfer", account_id, value, r.res, <<>>)
            /\ UNCHANGED <<thread_locals, storage, exec_context, rec>>

\* scale::Encode::encode(&(all, beneficiary.to_vec())): the panic payload of
\* terminate.
EncodeTermination(all, beneficiary) ==
    EncodeBalance(all) \o EncodeCompact(Len(beneficiary)) \o beneficiary

\* The outcome of ext::terminate: "Terminated" is the panic that carries the
\* encoded (all, beneficiary); "Panic" is a failed expect or a trapped overflow.
terminate_outcome(bal, contract, beneficiary, checks) ==
    LET all == get_balance(bal, contract).value
        r == transfer_outcome(bal, contract, beneficiary, EncodeBalance(all), checks)
    IN  IF ~get_balance(bal, contract).ok
        THEN [res |-> "Panic", balances |-> bal, out |-> <<>>]
        ELSE IF r.res # "Ok"
        THEN [res |-> "Panic", balances |-> r.balances, out |-> <<>>]
        ELSE [res |-> "Terminated", balances |-> r.balances,
              out |-> EncodeTermination(all, beneficiary)]

\* ext::terminate
terminate(beneficiary) ==
    \E checks \in BOOLEAN :
        LET r == terminate_outcome(balances, get_callee, beneficiary, checks)
        IN  /\ balances' = r.balances
            /\ last' = Call("terminate", beneficiary, <<>>, r.res, r.out)
            /\ UNCHANGED <<thread_locals, storage, exec_context, rec>>

\* Encoded amounts a caller passes to transfer: every Balance, and two byte
\* strings too short to hold one.
Amounts == {EncodeBalance(n) : n \in Balance} \cup {<<>>, <<1>>}

\* Balances the harness funds accounts with.
HarnessBalances == {0, 1, BalanceMax}

\* ----------------------------------------------------- specification: transfer
NextTransfer ==
    \/ \E a \in Accounts : set_callee(a)
    \/ \E a \in Accounts, n \in HarnessBalances : set_balance(a, n)
    \/ \E b \in Accounts, v \in Amounts : transfer(b, v)
    \/ \E b \in Accounts : terminate(b)

SpecTransfer == Init /\ [][NextTransfer]_vars

\* The balance of an account, none counting as zero.
BalanceOf(bal, a) == IF a \in DOMAIN bal THEN bal[a] ELSE 0

\* The amount a well-formed encoded value stands for.
AmountOf(value) == DecodeLE(SubSeq(value, 1, BalanceLen))
WellFormed(value) == Len(value) >= BalanceLen

\* C2: transfer(b, n) by the executing account a with n <= balance(a) succeeds,
\* takes exactly n from a and gives exactly n to b (none counting as zero), and
\* keeps balance(a) + balance(b).
C2_TransferMovesAmount ==
    [][(/\ last'.op = "transfer"
        /\ WellFormed(last'.a2)
        /\ get_callee \in DOMAIN balances
        /\ AmountOf(last'.a2) <= balances[get_callee])
       => LET a == get_callee
              b == last'.a1
              n == AmountOf(last'.a2)
          IN  /\ last'.res = "Ok"
              /\ a # b => /\ BalanceOf(balances', a) = balances[a] - n
                          /\ BalanceOf(balances', b) = BalanceOf(balances, b) + n
              /\ BalanceOf(balances', a) + BalanceOf(balances', b)
                    = balances[a] + BalanceOf(balances, b)]_vars

\* C4: terminate(beneficiary) by an executing account with a balance ends with
\* the terminal outcome carrying (balance, beneficiary), leaves the executing
\* account at 0 and the beneficiary's balance grown by the balance moved, for
\* every beneficiary, the executing account included.
C4_TerminateMovesAll ==
    [][(last'.op = "terminate" /\ get_callee \in DOMAIN balances)
       => LET a == get_callee
              b == last'.a1
              all == balances[a]
          IN  /\ last'.res = "Terminated"
              /\ last'.out = EncodeTermination(all, b)
              /\ BalanceOf(balances', a) = 0
              /\ a # b => BalanceOf(balances', b) = BalanceOf(balances, b) + all]_vars

\* C9: a transfer whose amount is malformed, or whose executing account has no
\* balance entry, returns TransferFailed and changes no part of the state.
C9_FailedTransferAtomic ==
    [][(/\ last'.op = "transfer"
        /\ \/ ~WellFormed(last'.a2)
           \/ get_callee \notin DOMAIN balances)
       => /\ last'.res = "TransferFailed"
          /\ UNCHANGED <<storage, balances, exec_context, rec>>]_vars

C9_Witness ==
    /\ last.op = "transfer" /\ last.res = "TransferFailed"
    /\ WellFormed(last.a2) /\ AmountOf(last.a2) > 0
    /\ get_callee \notin DOMAIN balances
    /\ last.a1 \in DOMAIN balances /\ balances[last.a1] = 1

\* C10 as stated: transfer(b, 0) leaves the balance table, entries included,
\* as it was.
C10_ZeroTransferKeepsTable ==
    [][(last'.op = "transfer" /\ WellFormed(last'.a2) /\ AmountOf(last'.a2) = 0)
       => balances' = balances]_vars

\* C10 as amended: transfer(b, 0) succeeds for an executing account with a
\* balance entry and keeps the balance of every account, none counting as
\* zero; the only entry it can add is one for b.
C10_ZeroTransferKeepsBalances ==
    [][(last'.op = "transfer" /\ WellFormed(last'.a2) /\ AmountOf(last'.a2) = 0)
       => /\ get_callee \in DOMAIN balances => last'.res = "Ok"
          /\ \A a \in Accounts : BalanceOf(balances', a) = BalanceOf(balances, a)
          /\ DOMAIN balances \subseteq DOMAIN balances'
          /\ DOMAIN balances' \subseteq DOMAIN balances \cup {last'.a1}
          /\ UNCHANGED <<storage, exec_context, rec>>]_vars

C10_Witness ==
    /\ last.op = "transfer" /\ last.res = "Ok"
    /\ WellFormed(last.a2) /\ AmountOf(last.a2) = 0
    /\ last.a1 # get_callee
    /\ balances[get_callee] = 1
    /\ balances[last.a1] = BalanceMax

\* The sum of the balances of the accounts in as, none counting as zero.
RECURSIVE SumOver(_, _)
SumOver(bal, as) ==
    IF as = {} THEN 0
    ELSE LET a == CHOOSE x \in as : TRUE
         IN  BalanceOf(bal, a) + SumOver(bal, as \ {a})

\* The total of all balances.
Total(bal) == SumOver(bal, Accounts)

\* C22: the total of all balances is the same after every transfer and every
\* terminate, successful or failed, for every executing account and
\* destination, the executing account included.
C22_TotalBalanceConserved ==
    [][last'.op \in {"transfer", "terminate"}
        => Total(balances') = Total(balances)]_vars

\* C23: a transfer that returns success has not overdrawn the executing
\* account nor pushed the destination above the maximum, and the balances it
\* stored are the exact difference and sum, not their residues.
C23_NoOverdrawNoOverflow ==
    [][(last'.op = "transfer" /\ last'.res = "Ok")
        => LET a == get_callee
               b == last'.a1
               n == AmountOf(last'.a2)
           IN  /\ n <= balances[a]
               /\ BalanceOf(balances, b) + n <= BalanceMax
               /\ a # b => /\ balances'[a] = balances[a] - n
                           /\ balances'[b] = BalanceOf(balances, b) + n]_vars

\* -------------------------------------------------------------- ext: events
\* <Compact<u32> as scale::Decode>::decode: the low two bits of the first byte
\* select the width (1, 2, 4 bytes, or a length-prefixed integer); an input
\* shorter than the width, or a value that a narrower width holds, is an error.
DecodeCompact(bytes) ==
    LET fail == [ok |-> FALSE, value |-> 0]
        mode == Head(bytes) % 4
    IN  IF bytes = <<>> THEN fail
        ELSE IF mode = 0 THEN [ok |-> TRUE, value |-> Head(bytes) \div 4]
        ELSE IF mode = 1
        THEN IF Len(bytes) < 2 THEN fail
             ELSE LET x == DecodeLE(SubSeq(bytes, 1, 2)) \div 4
                  IN  IF x > 63 THEN [ok |-> TRUE, value |-> x] ELSE fail
        ELSE IF mode = 2
        THEN IF Len(bytes) < 4 THEN fail
             ELSE LET x == DecodeLE(SubSeq(bytes, 1, 4)) \div 4
                  IN  IF x > 16383 THEN [ok |-> TRUE, value |-> x] ELSE fail
        ELSE IF Head(bytes) \div 4 # 0 \/ Len(bytes) < 5 THEN fail
        ELSE LET x == DecodeLE(SubSeq(bytes, 2, 5))
             IN  IF x > 1073741823 THEN [ok |-> TRUE, value |-> x] ELSE fail

\* slice::chunks(n) for n > 0: consecutive pieces of n elements, the last one
\* shorter when the length is no multiple of n.
RECURSIVE Chunks(_, _)
Chunks(bytes, n) ==
    IF bytes = <<>> THEN <<>>
    ELSE IF Len(bytes) <= n THEN <<bytes>>
    ELSE <<SubSeq(bytes, 1, n)>> \o Chunks(SubSeq(bytes, n + 1, Len(bytes)), n)

\* A deposit_event that splits the topics but does not compare the number of
\* pieces with the count.
deposit_event_outcome_unchecked(topics, data) ==
    LET dec == IF topics = <<>> THEN [ok |-> FALSE, value |-> 0]
               ELSE DecodeCompact(SubSeq(topics, 1, 1))
        rest == Tail(topics)
        n == IF Len(rest) \div dec.value = 0 THEN 1 ELSE Len(rest) \div dec.value
    IN  IF ~dec.ok THEN [res |-> "Panic", event |-> <<>>]
        ELSE [res |-> "Ok",
              event |-> [topics |-> IF dec.value > 0 THEN Chunks(rest, n) ELSE <<>>,
                         data |-> data]]

\* The outcome of ext::deposit_event up to record_event: the event built from
\* the buffers, or a panic (topics[0..1] of an empty buffer, a count that does
\* not decode from one byte, chunks(0), the assert_eq on the number of chunks).
deposit_event_outcome(topics, data) ==
    LET dec == DecodeCompact(SubSeq(topics, 1, 1))
        topics_count == dec.value
        rest == Tail(topics)
        bytes_per_topic == Len(rest) \div topics_count
        topics_vec == Chunks(rest, bytes_per_topic)
    IN  IF topics = <<>> THEN [res |-> "Panic", event |-> <<>>]
        ELSE IF ~dec.ok THEN [res |-> "Panic", event |-> <<>>]
        ELSE IF topics_count > 0
        THEN IF bytes_per_topic = 0 THEN [res |-> "Panic", event |-> <<>>]
             ELSE IF topics_count # Len(topics_vec)
             THEN [res |-> "Panic", event |-> <<>>]
             ELSE [res |-> "Ok", event |-> [topics |-> topics_vec, data |-> data]]
        ELSE [res |-> "Ok", event |-> [topics |-> <<>>, data |-> data]]

\* RecInstance::record_event
record_event(log, event) == Append(log, event)

\* RecInstance::record_println
record_println(log, content) == Append(log, content)

\* ext::deposit_event
deposit_event(topics, data) ==
    LET r == deposit_event_outcome(topics, data)
    IN  /\ Len(emitted_events) < MaxLog
        /\ IF r.res = "Ok"
           THEN /\ emitted_events' = record_event(emitted_events, r.event)
                /\ sent_events' = Append(sent_events, <<topics, data>>)
           ELSE UNCHANGED <<emitted_events, sent_events>>
        /\ last' = Call("deposit_event", topics, data, r.res, <<>>)
        /\ UNCHANGED <<thread_locals, env, counters, emitted_printlns, sent_printlns>>

\* A println that records nothing when the log already holds the content.
println_outcome_dedup(log, content) ==
    IF \E i \in 1 .. Len(log) : log[i] = content THEN log
    ELSE Append(log, content)

\* A println that starts the log over with the content.
println_outcome_restart(log, content) == <<content>>

\* The println log after ext::println
println_outcome(log, content) == record_println(log, content)

\* ext::println
println(content) ==
    /\ Len(emitted_printlns) < MaxLog
    /\ emitted_printlns' = println_outcome(emitted_printlns, content)
    /\ sent_printlns' = Append(sent_printlns, content)
    /\ last' = Call("println", <<content>>, <<>>, "Ok", <<>>)
    /\ UNCHANGED <<thread_locals, env, counters, emitted_events, sent_events>>

\* test_api::get_emitted_events: the log, in order.
get_emitted_events ==
    /\ last' = Read("get_emitted_events", <<>>, <<>>, "Ok", emitted_events)
    /\ UNCHANGED <<thread_locals, env, rec>>

\* test_api::get_recorded_printlns: the log, in order.
get_recorded_printlns ==
    /\ last' = Read("get_recorded_printlns", <<>>, <<>>, "Ok", emitted_printlns)
    /\ UNCHANGED <<thread_locals, env, rec>>

\* Clearing the recorder's logs.
clear_logs ==
    /\ emitted_events' = <<>>
    /\ emitted_printlns' = <<>>
    /\ sent_events' = <<>>
    /\ sent_printlns' = <<>>
    /\ last' = Call("clear_logs", <<>>, <<>>, "Ok", <<>>)
    /\ UNCHANGED <<thread_locals, env, counters>>

\* TopicsBuilder::output of the typed backend: the compact count, then the
\* topics one after the other.
RECURSIVE Concat(_)
Concat(ts) == IF ts = <<>> THEN <<>> ELSE Head(ts) \o Concat(Tail(ts))
\* An output that writes the count as one byte whatever its size.
TopicsOutput_bytecount(ts) == <<(4 * Len(ts)) % 256>> \o Concat(ts)
TopicsOutput(ts) == EncodeCompact(Len(ts)) \o Concat(ts)

\* Topic lists a caller encodes: none, one, the two of the engine's test,
\* three one-byte topics, and ManyTopics one-byte topics.
ManyTopics == 64
TopicLists ==
    { <<>>, <<<<12, 13>>>>, <<<<12, 13>>, <<14, 15>>>>, <<<<1>>, <<2>>, <<3>>>>,
      [i \in 1 .. ManyTopics |-> <<i>>] }
\* Topic buffers with broken framing: empty; count 2 and three bytes; count 1
\* and no bytes; count 3 and two bytes; count 2 and five bytes; count 64 (in
\* two bytes) and one byte.
MalformedTopics ==
    { <<>>, <<8, 1, 2, 3>>, <<4>>, <<12, 1, 2>>, <<8, 1, 2, 3, 4, 5>>,
      <<1, 1, 7>> }
TopicBuffers == {TopicsOutput(ts) : ts \in TopicLists} \cup MalformedTopics
EventData == {<<21, 22, 23>>, <<>>}
Printlns == {"foobar", "baz"}

\* ------------------------------------------------------- specification: events
NextEvents ==
    \/ \E t \in TopicBuffers, d \in EventData : deposit_event(t, d)
    \/ \E c \in Printlns : println(c)
    \/ get_emitted_events
    \/ get_recorded_printlns
    \/ clear_logs

SpecEvents == Init /\ [][NextEvents]_vars

\* The topic list a well-formed topic buffer encodes.
TopicsIn(buffer) == CHOOSE ts \in TopicLists : TopicsOutput(ts) = buffer
IsWellFormedTopics(buffer) == \E ts \in TopicLists : TopicsOutput(ts) = buffer

\* The bytes of a topic buffer after its compact count.
AfterCount(buffer) ==
    SubSeq(buffer, IF Head(buffer) % 4 = 0 THEN 2 ELSE 3, Len(buffer))

\* Broken framing: a non-zero count that does not divide the number of bytes
\* after it, or that is followed by no bytes.
NonDivisible(buffer) ==
    /\ DecodeCompact(buffer).ok
    /\ DecodeCompact(buffer).value > 0
    /\ \/ AfterCount(buffer) = <<>>
       \/ Len(AfterCount(buffer)) % DecodeCompact(buffer).value # 0

\* C5: deposit_event with a well-formed topic buffer (the compact count c, then
\* c topics of one size) appends exactly the event with those c topics in
\* order and the given data, and changes no other event.
C5_DepositAppendsEvent ==
    [][(last'.op = "deposit_event" /\ IsWellFormedTopics(last'.a1))
       => /\ last'.res = "Ok"
          /\ emitted_events' =
                Append(emitted_events,
                       [topics |-> TopicsIn(last'.a1), data |-> last'.a2])]_vars

\* C6: deposit_event with a non-zero count that does not divide the bytes after
\* it is rejected: the call unwinds and the event log stays as it was.
C6_MalformedTopicsRejected ==
    [][(last'.op = "deposit_event" /\ last'.a1 # <<>> /\ NonDivisible(last'.a1))
       => /\ last'.res = "Panic"
          /\ UNCHANGED <<env, rec>>]_vars

C6_Witness ==
    /\ last.op = "deposit_event" /\ last.res = "Panic"
    /\ last.a1 # <<>> /\ NonDivisible(last.a1)
    /\ Len(AfterCount(last.a1)) = 5
    /\ Len(emitted_events) = 1

\* C7: get_emitted_events returns the events recorded since the last clear,
\* get_recorded_printlns the printlns, each in recording order; a read right
\* after clearing returns the empty sequence.
C7_RecorderRoundTrip ==
    /\ last.op = "get_emitted_events"
       => /\ Len(last.out) = Len(sent_events)
          /\ \A i \in 1 .. Len(sent_events) :
                /\ last.out[i].topics = TopicsIn(sent_events[i][1])
                /\ last.out[i].data = sent_events[i][2]
    /\ last.op = "get_recorded_printlns" => last.out = sent_printlns
    /\ (last.op \in {"get_emitted_events", "get_recorded_printlns"}
            /\ last.after = "clear_logs")
       => last.out = <<>>

C7_Witness ==
    /\ last.op = "get_recorded_printlns"
    /\ Len(last.out) = 2 /\ last.out[1] = last.out[2]
    /\ Len(emitted_events) = 2
    /\ emitted_events[1].topics # emitted_events[2].topics
    /\ emitted_events[1].topics # <<>>

\* ---------------------------------------------------- ext: unsupported calls
\* The host functions whose body is unimplemented!.
UnsupportedFns ==
    { "now", "block_number", "gas_left", "rent_allowance", "minimum_balance",
      "tombstone_deposit", "instantiate", "call", "weight_to_fee",
      "set_rent_allowance", "random", "call_chain_extension", "restore_to" }

\* unimplemented!("off-chain environment does not yet support ..."): the call
\* unwinds with that message; nothing is returned.
unsupported_outcome(fn) == "Panic"

\* ext::now, ext::block_number, ..., ext::call_chain_extension, ext::restore_to
unsupported(fn) ==
    /\ last' = Call(fn, <<>>, <<>>, unsupported_outcome(fn), <<>>)
    /\ UNCHANGED <<thread_locals, env, rec>>

\* The typed backend's calls into them, and the host function each one calls.
TypedCalls == {"invoke_contract", "eval_contract", "instantiate_contract"}
HostFnOf(typed) == IF typed = "instantiate_contract" THEN "instantiate" ELSE "call"

\* EnvInstance::invoke_contract_impl / instantiate_contract: the outcome of
\* the host call reaches the caller, an error by `?`, a panic by unwinding.
typed_outcome(typed) == unsupported_outcome(HostFnOf(typed))

\* TypedEnvBackend::invoke_contract / eval_contract / instantiate_contract
typed_call(typed) ==
    /\ last' = Call(typed, <<>>, <<>>, typed_outcome(typed), <<>>)
    /\ UNCHANGED <<thread_locals, env, rec>>

\* ------------------------------------------------- specification: unsupported
NextUnsupported ==
    \/ \E a \in Accounts : set_callee(a)
    \/ \E a \in Accounts, n \in HarnessBalances : set_balance(a, n)
    \/ \E fn \in UnsupportedFns : unsupported(fn)
    \/ \E t \in TypedCalls : typed_call(t)

SpecUnsupported == Init /\ [][NextUnsupported]_vars

\* C3: an unsupported host function, called directly or through the typed
\* backend, returns the "unsupported" error as an ordinary result and leaves
\* the state unchanged.
C3_UnsupportedIsError ==
    [][last'.op \in UnsupportedFns \cup TypedCalls
       => /\ last'.res = "Unsupported"
          /\ UNCHANGED <<env, rec>>]_vars

\* ------------------------------------------------------- ext: return codes
\* A translation with the entries for codes 4 and 5 exchanged.
ReturnCodeIntoResult_swapped(code) ==
    CASE code = 0 -> "Ok"
      [] code = 1 -> "CalleeTrapped"
      [] code = 2 -> "CalleeReverted"
      [] code = 3 -> "KeyNotFound"
      [] code = 5 -> "BelowSubsistenceThreshold"
      [] code = 4 -> "TransferFailed"
      [] code = 6 -> "NewContractNotFunded"
      [] code = 7 -> "CodeNotFound"
      [] code = 8 -> "NotCallable"
      [] OTHER -> "UnknownError"

\* From<ReturnCode> for Result, as define_error_codes! generates it.
ReturnCodeIntoResult(code) ==
    CASE code = 0 -> "Ok"
      [] code = 1 -> "CalleeTrapped"
      [] code = 2 -> "CalleeReverted"
      [] code = 3 -> "KeyNotFound"
      [] code = 4 -> "BelowSubsistenceThreshold"
      [] code = 5 -> "TransferFailed"
      [] code = 6 -> "NewContractNotFunded"
      [] code = 7 -> "CodeNotFound"
      [] code = 8 -> "NotCallable"
      [] OTHER -> "UnknownError"

\* From<ext::Error> for crate::Error of the typed backend.
FromExtError(ext_error) ==
    CASE ext_error = "UnknownError" -> "UnknownError"
      [] ext_error = "CalleeTrapped" -> "CalleeTrapped"
      [] ext_error = "CalleeReverted" -> "CalleeReverted"
      [] ext_error = "KeyNotFound" -> "KeyNotFound"
      [] ext_error = "BelowSubsistenceThreshold" -> "BelowSubsistenceThreshold"
      [] ext_error = "TransferFailed" -> "TransferFailed"
      [] ext_error = "NewContractNotFunded" -> "NewContractNotFunded"
      [] ext_error = "CodeNotFound" -> "CodeNotFound"
      [] ext_error = "NotCallable" -> "NotCallable"

\* Return codes tried: 0..MaxCode and some larger 32-bit values.
ReturnCodes == (0 .. MaxCode) \cup {255, 256, 65535, 2147483647}

\* Result::from(ReturnCode(code))
from_return_code(code) ==
    /\ last' = Call("from_return_code", <<code>>, <<>>, ReturnCodeIntoResult(code), <<>>)
    /\ UNCHANGED <<thread_locals, env, rec>>

\* Result::from(ReturnCode(code)).map_err(Into::into) in the typed backend:
\* out holds the typed error kind.
map_err_into(code) ==
    LET r == ReturnCodeIntoResult(code)
    IN  /\ last' = Call("map_err_into", <<code>>, <<>>, r,
                        IF r = "Ok" THEN <<>> ELSE <<FromExtError(r)>>)
        /\ UNCHANGED <<thread_locals, env, rec>>

\* ------------------------------------------------ specification: return codes
NextCodes ==
    \/ \E code \in ReturnCodes : from_return_code(code)
    \/ \E code \in ReturnCodes : map_err_into(code)

SpecCodes == Init /\ [][NextCodes]_vars

\* The error kinds of codes 1..8, in order.
ErrorKinds ==
    << "CalleeTrapped", "CalleeReverted", "KeyNotFound",
       "BelowSubsistenceThreshold", "TransferFailed", "NewContractNotFunded",
       "CodeNotFound", "NotCallable" >>

\* C8: code 0 translates to success, codes 1..8 to their error kinds, every
\* other code to UnknownError, and the typed backend's conversion keeps the
\* kind.
C8_ReturnCodeTable ==
    last.op \in {"from_return_code", "map_err_into"}
    => LET code == last.a1[1]
       IN  /\ code = 0 => last.res = "Ok"
           /\ code \in 1 .. 8 => last.res = ErrorKinds[code]
           /\ code > 8 => last.res = "UnknownError"
           /\ (last.op = "map_err_into" /\ code # 0) => last.out = <<last.res>>

C8_Witness ==
    /\ last.op = "map_err_into"
    /\ last.a1 = <<5>>
    /\ last.out = <<"TransferFailed">>

\* ------------------------------------------------------ ext: context queries
\* test_api::set_caller: the harness chooses the caller of the execution.
set_caller(a) ==
    /\ exec_context' = [exec_context EXCEPT !.caller = a]
    /\ last' = Call("set_caller", a, <<>>, "Ok", <<>>)
    /\ UNCHANGED <<thread_locals, storage, balances, rec>>

\* test_api::set_value_transferred: the harness chooses the transferred value.
set_value_transferred(v) ==
    /\ exec_context' = [exec_context EXCEPT !.value_transferred = v]
    /\ last' = Call("set_value_transferred", EncodeBalance(v), <<>>, "Ok", <<>>)
    /\ UNCHANGED <<thread_locals, storage, balances, rec>>

\* ext::extract_from_slice: the view shortened to its first new_len bytes.
extract_from_slice(output, new_len) == SubSeq(output, 1, new_len)

\* output[..bytes.len()].copy_from_slice(&bytes[..]) and then
\* extract_from_slice(output, bytes.len()): the slice panics when the buffer
\* is shorter than the bytes; otherwise out is the view the caller is left with.
copy_and_extract(op, output, bytes) ==
    IF Len(bytes) <= Len(output)
    THEN Read(op, output, <<>>, "Ok",
              extract_from_slice(CopyPrefix(output, bytes), Len(bytes)))
    ELSE Read(op, output, <<>>, "Panic", <<>>)

\* The outcome of ext::caller.
caller_outcome(ctx, output) == copy_and_extract("caller", output, ctx.caller)

\* An address that answers with the caller of the execution.
address_outcome_caller(ctx, output) ==
    copy_and_extract("address", output, ctx.caller)

\* The outcome of ext::address.
address_outcome(ctx, output) == copy_and_extract("address", output, ctx.callee)

\* The outcome of ext::value_transferred.
value_transferred_outcome(ctx, output) ==
    copy_and_extract("value_transferred", output,
                     EncodeBalance(ctx.value_transferred))

\* A balance that reports zero for an account without an entry.
balance_outcome_zero(bal, ctx, output) ==
    copy_and_extract("balance", output,
        EncodeBalance(IF ctx.callee \in DOMAIN bal THEN bal[ctx.callee] ELSE 0))

\* The outcome of ext::balance: balances.get(contract).expect(..) panics when
\* the executing account has no entry.
balance_outcome(bal, ctx, output) ==
    LET contract == ctx.callee
    IN  IF contract \notin DOMAIN bal
        THEN Read("balance", output, <<>>, "Panic", <<>>)
        ELSE copy_and_extract("balance", output, EncodeBalance(bal[contract]))

\* ext::caller
caller(output) ==
    /\ last' = caller_outcome(exec_context, output)
    /\ UNCHANGED <<thread_locals, env, rec>>

\* ext::address
address(output) ==
    /\ last' = address_outcome(exec_context, output)
    /\ UNCHANGED <<thread_locals, env, rec>>

\* ext::value_transferred
value_transferred(output) ==
    /\ last' = value_transferred_outcome(exec_context, output)
    /\ UNCHANGED <<thread_locals, env, rec>>

\* ext::balance
balance(output) ==
    /\ last' = balance_outcome(balances, exec_context, output)
    /\ UNCHANGED <<thread_locals, env, rec>>

\* Accounts of the context harness, and the output buffers it hands to the
\* queries: one that holds every result with room to spare, one of one byte.
ContextAccounts == {DefaultAccount, Alice}
QueryBuffers == {<<9, 9, 9>>, <<0>>}

\* ------------------------------------------------------ specification: context
NextContext ==
    \/ \E a \in ContextAccounts : set_caller(a)
    \/ \E a \in ContextAccounts : set_callee(a)
    \/ \E v \in HarnessBalances : set_value_transferred(v)
    \/ \E a \in ContextAccounts, n \in HarnessBalances : set_balance(a, n)
    \/ \E b \in QueryBuffers : caller(b)
    \/ \E b \in QueryBuffers : address(b)
    \/ \E b \in QueryBuffers : value_transferred(b)
    \/ \E b \in QueryBuffers : balance(b)

SpecContext == Init /\ [][NextContext]_vars

\* The four context queries.
ContextQueries == {"caller", "address", "value_transferred", "balance"}

\* C12: the context queries reflect the last value set.  A caller query into
\* a buffer that holds the result yields exec_context.caller, which only
\* set_caller writes, and writes as given; likewise address and set_callee,
\* value_transferred and set_value_transferred (encoded); balance yields the
\* encoding of the executing account's entry, which set_balance writes as
\* given.  The view returned is exactly the result.  No query changes the
\* environment or the recorder.
C12_QueriesReflectSetters ==
    [][/\ exec_context'.caller =
            (IF last'.op = "set_caller" THEN last'.a1 ELSE exec_context.caller)
       /\ exec_context'.callee =
            (IF last'.op = "set_callee" THEN last'.a1 ELSE exec_context.callee)
       /\ EncodeBalance(exec_context'.value_transferred) =
            (IF last'.op = "set_value_transferred" THEN last'.a1
             ELSE EncodeBalance(exec_context.value_transferred))
       /\ last'.op = "set_balance"
            => EncodeBalance(balances'[last'.a1]) = last'.a2
       /\ (last'.op = "caller" /\ Len(last'.a1) >= Len(exec_context.caller))
            => last'.res = "Ok" /\ last'.out = exec_context.caller
       /\ (last'.op = "address" /\ Len(last'.a1) >= Len(exec_context.callee))
            => last'.res = "Ok" /\ last'.out = exec_context.callee
       /\ (last'.op = "value_transferred" /\ Len(last'.a1) >= BalanceLen)
            => /\ last'.res = "Ok"
               /\ last'.out = EncodeBalance(exec_context.value_transferred)
       /\ (last'.op = "balance" /\ Len(last'.a1) >= BalanceLen
                /\ exec_context.callee \in DOMAIN balances)
            => /\ last'.res = "Ok"
               /\ last'.out = EncodeBalance(balances[exec_context.callee])
       /\ (last'.op = "balance" /\ Len(last'.a1) >= BalanceLen
                /\ last.op = "set_balance" /\ last.a1 = exec_context.callee)
            => last'.out = last.a2
       /\ last'.op \in ContextQueries
            => UNCHANGED <<env, rec>>]_vars

C12_Witness ==
    /\ last.op = "balance" /\ last.after = "set_balance"
    /\ last.res = "Ok"
    /\ exec_context.callee = Alice
    /\ exec_context.caller = Alice
    /\ Alice \in DOMAIN balances
    /\ balances[Alice] = BalanceMax
    /\ last.out = EncodeBalance(BalanceMax)
    /\ Len(last.a1) > Len(last.out)

\* C13: balance(output) while the executing account has no balance entry
\* panics: it yields no view (in particular not the encoding of zero), it
\* returns no error, and it changes nothing.
C13_BalanceOfUnfundedIsFatal ==
    [][(last'.op = "balance" /\ exec_context.callee \notin DOMAIN balances)
        => /\ last'.res = "Panic"
           /\ last'.out = <<>>
           /\ UNCHANGED <<env, rec>>]_vars

C13_Witness ==
    /\ last.op = "balance"
    /\ last.res = "Panic"
    /\ exec_context.callee \notin DOMAIN balances
    /\ DOMAIN balances # {}
    /\ Len(last.a1) >= BalanceLen

\* ------------------------------------------------------------ storage engine
\* Option<T>: None is <<>>, Some(x) is <<x>>.
None == <<>>
Some(x) == <<x>>

\* b"balance:"
BALANCE_OF == <<98, 97, 108, 97, 110, 99, 101, 58>>

\* who.to_vec().to_keyed_vec(BALANCE_OF): the prefix, then the encoding of
\* the byte vector (its compact length and its bytes).
to_keyed_vec(who, prepend_key) ==
    prepend_key \o EncodeCompact(Len(who)) \o who

\* hashing::blake2b_256, scaled to the one-byte key width of the model: a
\* deterministic digest of the input, as wide as a storage key, that tells
\* the accounts of the model apart.
RECURSIVE SumBytes(_)
SumBytes(bytes) == IF bytes = <<>> THEN 0 ELSE Head(bytes) + SumBytes(Tail(bytes))
blake2b_256(input) == <<SumBytes(input) % 256>>

\* storage::balance_of_key
balance_of_key(who) == blake2b_256(to_keyed_vec(who, BALANCE_OF))

\* HashMap::get on the map held as a function.
hmap_get(s, key) == IF key \in DOMAIN s THEN Some(s[key]) ELSE None

\* Storage::len
Storage_len ==
    /\ last' = Call("Storage::len", <<>>, <<>>, "Ok", <<Cardinality(DOMAIN storage)>>)
    /\ UNCHANGED <<thread_locals, env, rec>>

\* Storage::get
Storage_get(key) ==
    /\ last' = Call("Storage::get", key, <<>>, "Ok", hmap_get(storage, key))
    /\ UNCHANGED <<thread_locals, env, rec>>

\* Storage::remove
Storage_remove(key) ==
    /\ storage' = MapRemove(storage, key)
    /\ last' = Call("Storage::remove", key, <<>>, "Ok", hmap_get(storage, key))
    /\ UNCHANGED <<thread_locals, balances, exec_context, rec>>

\* An insert that keeps the value of a key that is present.
Storage_insert_keep(key, value) ==
    /\ storage' = IF key \in DOMAIN storage THEN storage
                  ELSE MapInsert(storage, key, value)
    /\ last' = Call("Storage::insert", key, value, "Ok", hmap_get(storage, key))
    /\ UNCHANGED <<thread_locals, balances, exec_context, rec>>

\* Storage::insert
Storage_insert(key, value) ==
    /\ storage' = MapInsert(storage, key, value)
    /\ last' = Call("Storage::insert", key, value, "Ok", hmap_get(storage, key))
    /\ UNCHANGED <<thread_locals, balances, exec_context, rec>>

\* Storage::clear
Storage_clear ==
    /\ storage' = EmptyMap
    /\ last' = Call("Storage::clear", <<>>, <<>>, "Ok", <<>>)
    /\ UNCHANGED <<thread_locals, balances, exec_context, rec>>

\* The outcome of Storage::get_balance on the map s: None without an entry
\* at the balance key, the decoded entry otherwise; the expect panics on an
\* entry that does not decode.
Storage_get_balance_outcome(s, account_id) ==
    LET hashed_key == balance_of_key(account_id)
        entry == hmap_get(s, hashed_key)
    IN  IF entry = None THEN [res |-> "Ok", out |-> None]
        ELSE IF DecodeBalance(entry[1]).ok
        THEN [res |-> "Ok", out |-> Some(DecodeBalance(entry[1]).value)]
        ELSE [res |-> "Panic", out |-> <<>>]

\* Storage::get_balance
Storage_get_balance(account_id) ==
    LET r == Storage_get_balance_outcome(storage, account_id)
    IN  /\ last' = Call("Storage::get_balance", account_id, <<>>, r.res, r.out)
        /\ UNCHANGED <<thread_locals, env, rec>>

\* A set_balance that only fills a balance slot that is empty.
Storage_set_balance_outcome_keep(s, account_id, new_balance) ==
    LET hashed_key == balance_of_key(account_id)
    IN  IF hashed_key \in DOMAIN s THEN s
        ELSE MapInsert(s, hashed_key, EncodeBalance(new_balance))

\* The map after Storage::set_balance: entry(hashed_key).and_modify(..)
\* .or_insert(..) leaves the encoded balance at the balance key.
Storage_set_balance_outcome(s, account_id, new_balance) ==
    LET hashed_key == balance_of_key(account_id)
        encoded_balance == EncodeBalance(new_balance)
    IN  IF hashed_key \in DOMAIN s
        THEN [s EXCEPT ![hashed_key] = encoded_balance]
        ELSE MapInsert(s, hashed_key, encoded_balance)

\* Storage::set_balance
Storage_set_balance(account_id, new_balance) ==
    /\ storage' = Storage_set_balance_outcome(storage, account_id, new_balance)
    /\ last' = Read("Storage::set_balance", account_id,
                    EncodeBalance(new_balance), "Ok", <<>>)
    /\ UNCHANGED <<thread_locals, balances, exec_context, rec>>

\* Keys a contract passes to set_storage and clear_storage: any key of the
\* key width, the one that is the balance key of Alice among them.
ContractKeys == Keys \cup {balance_of_key(Alice)}

\* -------------------------------------------------------- specification: store
NextStore ==
    \/ Storage_len
    \/ \E k \in Keys : Storage_get(k)
    \/ \E k \in Keys : Storage_remove(k)
    \/ \E k \in Keys, v \in Values : Storage_insert(k, v)
    \/ Storage_clear
    \/ \E a \in ContextAccounts : Storage_get_balance(a)
    \/ \E a \in ContextAccounts, n \in HarnessBalances : Storage_set_balance(a, n)
    \/ \E k \in ContractKeys, v \in Values : set_storage(k, v)
    \/ \E k \in ContractKeys : clear_storage(k)

SpecStore == Init /\ [][NextStore]_vars

\* The number of entries of a store.
Entries(s) == Cardinality(DOMAIN s)

\* The stores s and t agree on every key but k.
SameBut(s, t, k) ==
    /\ DOMAIN s \ {k} = DOMAIN t \ {k}
    /\ \A x \in DOMAIN s \ {k} : s[x] = t[x]

\* C14: the storage engine.  insert(k, v) returns the previous value at k,
\* none if absent, afterwards get(k) = v, and the number of entries grows by
\* one exactly when k was absent; remove(k) returns the value that was at k,
\* none if absent, afterwards get(k) is absent, and the number of entries
\* shrinks by one exactly when k was present; neither touches another key;
\* get(k) returns the value at k; len() is the number of keys present;
\* clear() leaves len() = 0; none of the five fails.
C14_StorageEngine ==
    [][/\ last'.op \in {"Storage::len", "Storage::get", "Storage::remove",
                        "Storage::insert", "Storage::clear"}
            => last'.res = "Ok"
       /\ last'.op = "Storage::insert"
            => /\ last'.out = hmap_get(storage, last'.a1)
               /\ hmap_get(storage', last'.a1) = Some(last'.a2)
               /\ SameBut(storage, storage', last'.a1)
               /\ Entries(storage') =
                    Entries(storage) + (IF last'.out = None THEN 1 ELSE 0)
       /\ last'.op = "Storage::remove"
            => /\ last'.out = hmap_get(storage, last'.a1)
               /\ hmap_get(storage', last'.a1) = None
               /\ SameBut(storage, storage', last'.a1)
               /\ Entries(storage') =
                    Entries(storage) - (IF last'.out = None THEN 0 ELSE 1)
       /\ last'.op = "Storage::get"
            => last'.out = hmap_get(storage, last'.a1) /\ storage' = storage
       /\ last'.op = "Storage::len"
            => last'.out = <<Entries(storage)>> /\ storage' = storage
       /\ last'.op = "Storage::clear"
            => Entries(storage') = 0
       /\ (last.op = "Storage::clear" /\ last'.op = "Storage::len")
            => last'.out = <<0>>]_vars

C14_Witness ==
    /\ last.op = "Storage::insert"
    /\ last.out # None
    /\ last.out # Some(last.a2)
    /\ Entries(storage) = 2
    /\ hmap_get(storage, last.a1) = Some(last.a2)

\* C15: set_storage and clear_storage, whatever key the contract passes,
\* leave the balance of every account as Storage::get_balance reads it.
C15_BalanceSlotsNeverCollide ==
    [][last'.op \in {"set_storage", "clear_storage"}
        => \A a \in Accounts :
              Storage_get_balance_outcome(storage', a) =
                  Storage_get_balance_outcome(storage, a)]_vars

\* C20: Storage::set_balance overwrites in place.  After set_balance(a, y)
\* get_balance(a) = y and no other entry has changed; when a had a balance
\* entry, as after set_balance(a, x), the number of entries is as before.
\* get_balance of an account without a balance entry, as on a new store, is
\* absent.
C20_SetBalanceOverwrites ==
    [][/\ last'.op = "Storage::set_balance"
            => /\ last'.res = "Ok"
               /\ Storage_get_balance_outcome(storage', last'.a1) =
                    [res |-> "Ok", out |-> Some(DecodeLE(last'.a2))]
               /\ SameBut(storage, storage', balance_of_key(last'.a1))
               /\ (last.op = "Storage::set_balance" /\ last.a1 = last'.a1)
                    => Entries(storage') = Entries(storage)
               /\ balance_of_key(last'.a1) \in DOMAIN storage
                    => Entries(storage') = Entries(storage)
       /\ (last'.op = "Storage::get_balance"
                /\ (last.op = "new"
                        \/ balance_of_key(last'.a1) \notin DOMAIN storage))
            => last'.res = "Ok" /\ last'.out = None]_vars

C20_Witness ==
    /\ last.op = "Storage::set_balance"
    /\ last.after = "Storage::set_balance"
    /\ Entries(storage) = 1
    /\ last.a2 = EncodeBalance(BalanceMax)
    /\ Storage_get_balance_outcome(storage, last.a1).out = Some(BalanceMax)

\* --------------------------------------------------- thread-local instances
\* The threads that make host calls besides the one that runs the test.
Threads == {1, 2}

\* The EnvInstance a thread's ENV_INSTANCE is initialised with on first use.
EnvInstanceNew ==
    [storage |-> EmptyMap, balances |-> EmptyMap,
     exec_context |-> ExecContextDefault]

\* Closures the host functions and the harness run on the environment
\* instance: the storage closures of ext::set_storage, clear_storage and
\* get_storage, and those of test_api::set_balance and set_caller.
EnvClosures ==
    {<<"storage.insert", <<66>>, v>> : v \in Values}
        \cup {<<"storage.remove", <<66>>>>, <<"storage.get", <<66>>>>}
        \cup {<<"balances.insert", Alice, n>> : n \in {1, BalanceMax}}
        \cup {<<"exec_context.caller", Alice>>}

\* f(&mut instance): the instance after the closure has run on it.
apply_closure(f, instance) ==
    CASE f[1] = "storage.insert"
            -> [instance EXCEPT !.storage = MapInsert(@, f[2], f[3])]
      [] f[1] = "storage.remove"
            -> [instance EXCEPT !.storage = MapRemove(@, f[2])]
      [] f[1] = "storage.get" -> instance
      [] f[1] = "balances.insert"
            -> [instance EXCEPT !.balances = MapInsert(@, f[2], f[3])]
      [] f[1] = "exec_context.caller"
            -> [instance EXCEPT !.exec_context.caller = f[2]]

\* An on_instance over one static shared by the threads: the closure's effect
\* shows in the instance of every thread.
on_instance_shared(t, f) ==
    LET instance == IF t \in DOMAIN ENV_INSTANCE THEN ENV_INSTANCE[t]
                    ELSE EnvInstanceNew
    IN  /\ ENV_INSTANCE' = [u \in DOMAIN ENV_INSTANCE \cup {t} |->
                                apply_closure(f, instance)]
        /\ last' = Call("EnvInstance::on_instance", <<t>>, f, "Ok", <<>>)
        /\ UNCHANGED <<REC_INSTANCE, env, rec>>

\* <EnvInstance as OnInstance>::on_instance called by thread t with closure
\* f: ENV_INSTANCE.with hands f the instance of the calling thread, which is
\* constructed on the thread's first use.
on_instance(t, f) ==
    LET instance == IF t \in DOMAIN ENV_INSTANCE THEN ENV_INSTANCE[t]
                    ELSE EnvInstanceNew
    IN  /\ ENV_INSTANCE' = MapInsert(ENV_INSTANCE, t, apply_closure(f, instance))
        /\ last' = Call("EnvInstance::on_instance", <<t>>, f, "Ok", <<>>)
        /\ UNCHANGED <<REC_INSTANCE, env, rec>>

\* <RecInstance as OnInstance>::on_instance called by thread t to record a
\* println: the recorder of the calling thread, empty on first use.
rec_on_instance(t, content) ==
    LET instance == IF t \in DOMAIN REC_INSTANCE THEN REC_INSTANCE[t] ELSE <<>>
    IN  /\ Len(instance) < MaxLog
        /\ REC_INSTANCE' = MapInsert(REC_INSTANCE, t, record_println(instance, content))
        /\ last' = Call("RecInstance::on_instance", <<t>>, <<content>>, "Ok", <<>>)
        /\ UNCHANGED <<ENV_INSTANCE, env, rec>>

\* ------------------------------------------------------ specification: threads
NextThreads ==
    \/ \E t \in Threads, f \in EnvClosures : on_instance(t, f)
    \/ \E t \in Threads : rec_on_instance(t, "foobar")

SpecThreads == Init /\ [][NextThreads]_vars

\* What thread u observes of a thread-local: its instance, or the initial
\* one it would get on first use.
Observed(instances, u, new) ==
    IF u \in DOMAIN instances THEN instances[u] ELSE new

\* C16: each thread has its own environment instance.  A call made by one
\* thread leaves the storage, balances, execution context and recorded logs
\* every other thread observes as they were; the instance a thread gets on
\* first use is the closure's effect on an empty one: no storage entries,
\* no balances, the default context.
C16_ThreadsAreIsolated ==
    [][last'.op \in {"EnvInstance::on_instance", "RecInstance::on_instance"}
        => LET t == last'.a1[1]
           IN  /\ \A u \in Threads \ {t} :
                    /\ Observed(ENV_INSTANCE', u, EnvInstanceNew)
                         = Observed(ENV_INSTANCE, u, EnvInstanceNew)
                    /\ Observed(REC_INSTANCE', u, <<>>)
                         = Observed(REC_INSTANCE, u, <<>>)
               /\ (last'.op = "EnvInstance::on_instance"
                        /\ t \notin DOMAIN ENV_INSTANCE)
                    => /\ ENV_INSTANCE'[t] = apply_closure(last'.a2, EnvInstanceNew)
                       /\ last'.a2[1] = "storage.get"
                            => /\ DOMAIN ENV_INSTANCE'[t].storage = {}
                               /\ DOMAIN ENV_INSTANCE'[t].balances = {}
                               /\ ENV_INSTANCE'[t].exec_context = ExecContextDefault
               /\ UNCHANGED <<env, rec>>]_vars

C16_Witness ==
    /\ last.op = "EnvInstance::on_instance"
    /\ last.a1 = <<2>>
    /\ last.a2[1] = "storage.get"
    /\ DOMAIN ENV_INSTANCE = Threads
    /\ ENV_INSTANCE[2] = EnvInstanceNew
    /\ DOMAIN ENV_INSTANCE[1].storage # {}
    /\ DOMAIN ENV_INSTANCE[1].balances # {}
    /\ ENV_INSTANCE[1].exec_context.caller = Alice
    /\ 1 \in DOMAIN REC_INSTANCE /\ 2 \notin DOMAIN REC_INSTANCE
    /\ Len(REC_INSTANCE[1]) = 2

\* ------------------------------------------------- typed backend: topics
\* <E as Environment>::Hash::clear(): the zeroed buffer of a topic, as wide as
\* a digest (32 bytes in the code, scaled like the keys).
HashClear == <<0>>

\* A push_topic that stores the encoded value, or the digest, as it is.
push_topic_outcome_nopad(topics, encoded, debug) ==
    LET result == IF Len(encoded) <= Len(HashClear) THEN encoded
                  ELSE blake2b_256(encoded)
    IN  IF debug /\ \E i \in 1 .. Len(topics) : topics[i] = result
        THEN [res |-> "Panic", topics |-> topics]
        ELSE [res |-> "Ok", topics |-> Append(topics, result)]

\* TopicsBuilder::push_topic on the builder's topics with the encoded topic
\* value: the value left-aligned in the zeroed buffer, or the digest of a
\* longer one; debug tells whether the build has debug assertions, whose
\* debug_assert! panics on a topic the builder already holds.
push_topic_outcome(topics, encoded, debug) ==
    LET len_encoded == Len(encoded)
        len_result == Len(HashClear)
        hash_output == blake2b_256(encoded)
        copy_len == IF Len(hash_output) < len_result THEN Len(hash_output)
                    ELSE len_result
        result == IF len_encoded <= len_result
                  THEN CopyPrefix(HashClear, encoded)
                  ELSE CopyPrefix(HashClear, SubSeq(hash_output, 1, copy_len))
    IN  IF debug /\ \E i \in 1 .. Len(topics) : topics[i] = result
        THEN [res |-> "Panic", topics |-> topics]
        ELSE [res |-> "Ok", topics |-> Append(topics, result)]

\* event.topics(builder): push_topic for each topic value of the event, in
\* order, from the builder's topics on.
RECURSIVE push_all(_, _, _)
push_all(topics, values, debug) ==
    IF values = <<>> THEN [res |-> "Ok", topics |-> topics]
    ELSE LET r == push_topic_outcome(topics, Head(values), debug)
         IN  IF r.res # "Ok" THEN r
             ELSE push_all(r.topics, Tail(values), debug)

\* TopicsBuilder::push_topic
push_topic(topics, encoded) ==
    \E debug \in BOOLEAN :
        LET r == push_topic_outcome(topics, encoded, debug)
        IN  /\ last' = Call("push_topic", topics, encoded, r.res, r.topics)
            /\ UNCHANGED <<thread_locals, env, rec>>

\* TopicsBuilder::output of the builder that the values were pushed into.
output(values) ==
    LET b == push_all(<<>>, values, FALSE)
    IN  /\ last' = Call("TopicsBuilder::output", values, b.topics, "Ok",
                        TopicsOutput(b.topics))
        /\ UNCHANGED <<thread_locals, env, rec>>

\* EnvInstance::emit_event of the typed backend: the event's topic values go
\* through a new TopicsBuilder, whose output and the encoded event go to
\* deposit_event.  out is the topic buffer, <<>> when a push panicked.
emit_event(values, enc_data) ==
    \E debug \in BOOLEAN :
        LET b == push_all(<<>>, values, debug)
            enc_topics == TopicsOutput(b.topics)
            r == deposit_event_outcome(enc_topics, enc_data)
        IN  /\ Len(emitted_events) < MaxLog
            /\ IF b.res = "Ok" /\ r.res = "Ok"
               THEN /\ emitted_events' = record_event(emitted_events, r.event)
                    /\ sent_events' = Append(sent_events, <<enc_topics, enc_data>>)
               ELSE UNCHANGED <<emitted_events, sent_events>>
            /\ last' = Call("emit_event", values, enc_data,
                            IF b.res = "Ok" THEN r.res ELSE "Panic",
                            IF b.res = "Ok" THEN enc_topics ELSE <<>>)
            /\ UNCHANGED <<thread_locals, env, counters, emitted_printlns,
                           sent_printlns>>

\* Encoded topic values: empty, as wide as a topic, and two longer ones.
TopicValues == {<<>>, <<7>>, <<1, 2>>, <<9, 9, 9>>}
\* Builders push_topic is called on: new, and holding one or two topics.
Builders == {<<>>, <<<<7>>>>, <<<<0>>, <<3>>>>}
\* The topic values of the events emitted: none, one, an empty and a long
\* one, the same value twice, and ManyTopics different ones.
EventTopicValues ==
    { <<>>, <<<<7>>>>, <<<<>>, <<1, 2>>>>, <<<<1, 2>>, <<1, 2>>>>,
      [i \in 1 .. ManyTopics |-> <<i>>] }

\* -------------------------------------------------------- specification: topics
\* Topic buffers handed to deposit_event directly: two well-formed ones, one
\* with a count that does not divide the bytes, one with a two-byte count.
DepositedTopics ==
    { TopicsOutput(<<<<12, 13>>>>), TopicsOutput(<<<<1>>, <<2>>, <<3>>>>),
      <<8, 1, 2, 3>>, <<1, 1, 7>> }

NextTopics ==
    \/ \E t \in Builders, v \in TopicValues : push_topic(t, v)
    \/ \E vs \in EventTopicValues : output(vs)
    \/ \E vs \in EventTopicValues, d \in EventData : emit_event(vs, d)
    \/ \E t \in DepositedTopics : deposit_event(t, <<>>)

SpecTopics == Init /\ [][NextTopics]_vars

\* The topic of an encoded value: the value followed by zeros up to the
\* width of a topic, or the first bytes of the digest of a longer value.
TopicOf(encoded) ==
    IF Len(encoded) <= Len(HashClear)
    THEN encoded \o [i \in 1 .. (Len(HashClear) - Len(encoded)) |-> 0]
    ELSE SubSeq(blake2b_256(encoded), 1, Len(HashClear))

\* The topics of a list of encoded values, in order.
TopicsOf(values) == [i \in 1 .. Len(values) |-> TopicOf(values[i])]

\* C21: the count written equals the number of topics present.  The output
\* of a builder after k pushes decodes to the count k and is followed by
\* exactly the k topics, each of the width of a topic; every event that
\* deposit_event appends has as many topics as the count its buffer decodes
\* to.
C21_TopicCountMatches ==
    [][/\ last'.op = "TopicsBuilder::output"
            => LET k == Len(last'.a1)
               IN  /\ DecodeCompact(last'.out).ok
                   /\ DecodeCompact(last'.out).value = k
                   /\ Len(last'.a2) = k
                   /\ AfterCount(last'.out) = Concat(last'.a2)
                   /\ Len(AfterCount(last'.out)) = k * Len(HashClear)
       /\ (last'.op \in {"emit_event", "deposit_event"}
                /\ emitted_events' # emitted_events)
            => LET buffer == IF last'.op = "emit_event" THEN last'.out
                             ELSE last'.a1
                   event == emitted_events'[Len(emitted_events')]
               IN  /\ Len(emitted_events') = Len(emitted_events) + 1
                   /\ DecodeCompact(buffer).ok
                   /\ Len(event.topics) = DecodeCompact(buffer).value]_vars

C21_Witness ==
    /\ last.op = "TopicsBuilder::output"
    /\ Len(last.a1) = ManyTopics
    /\ DecodeCompact(last.out).value = ManyTopics
    /\ Len(last.out) = 2 + ManyTopics * Len(HashClear)
    /\ Len(emitted_events) = 2
    /\ Len(emitted_events[2].topics) = 2

\* C26: topic-set round trip.  emit_event with k topic values whose pushes
\* went through records one event whose topics are the k pushed topics in
\* order, for every k.
C26_TopicRoundTrip ==
    [][(last'.op = "emit_event" /\ last'.out # <<>>)
        => /\ last'.res = "Ok"
           /\ emitted_events' =
                Append(emitted_events,
                       [topics |-> TopicsOf(last'.a1), data |-> last'.a2])]_vars

\* C27 as stated: push_topic always appends the topic of the value.
C27_PushTopicAlwaysAppends ==
    [][last'.op = "push_topic"
        => /\ last'.res = "Ok"
           /\ last'.out = Append(last'.a1, TopicOf(last'.a2))]_vars

\* C27: push_topic of a value whose topic the builder does not hold appends
\* that topic: the encoded value zero-padded to the width of a topic, or the
\* digest of a longer value; the topic depends on the value alone.  Pushing
\* a value whose topic the builder holds already either panics and leaves
\* the builder as it was (builds with debug assertions) or appends the same
\* bytes again.  Every topic appended has the width of a topic.
C27_PushTopicAppendsFixedWidth ==
    [][last'.op = "push_topic"
        => LET held == \E i \in 1 .. Len(last'.a1) :
                            last'.a1[i] = TopicOf(last'.a2)
               appended == /\ last'.res = "Ok"
                           /\ last'.out = Append(last'.a1, TopicOf(last'.a2))
                           /\ Len(last'.out[Len(last'.out)]) = Len(HashClear)
               refused == last'.res = "Panic" /\ last'.out = last'.a1
           IN  /\ ~held => appended
               /\ held => appended \/ refused]_vars

C27_Witness ==
    /\ last.op = "push_topic"
    /\ last.res = "Ok"
    /\ Len(last.a2) > Len(HashClear)
    /\ Len(last.out) = 3
    /\ last.out[3] = last.out[2]
    /\ last.out[3] = blake2b_256(last.a2)

\* ---------------------------------------------------- typed backend: storage
\* let mut output: [u8; 9600] = [0; 9600]: the zeroed scratch buffer of
\* get_contract_storage, three bytes here.
ScratchBuffer == <<0, 0, 0>>

\* scale::Encode::encode of a Vec<u8>: the compact length, then the bytes.
EncodeVec(value) == EncodeCompact(Len(value)) \o value

\* The number of bytes a compact integer takes, by the mode in its first byte.
CompactWidth(bytes) ==
    CASE Head(bytes) % 4 = 0 -> 1
      [] Head(bytes) % 4 = 1 -> 2
      [] Head(bytes) % 4 = 2 -> 4
      [] OTHER -> 5

\* scale::Decode::decode of a Vec<u8> from the front of bytes: the compact
\* length and as many bytes after it; what follows them is not read.
DecodeVec(bytes) ==
    LET len == DecodeCompact(bytes)
        from == CompactWidth(bytes)
    IN  IF ~len.ok \/ Len(bytes) < from + len.value
        THEN [ok |-> FALSE, value |-> <<>>]
        ELSE [ok |-> TRUE, value |-> SubSeq(bytes, from + 1, from + len.value)]

\* EnvBackend::set_contract_storage: the value is encoded and handed to
\* ext::set_storage.
set_contract_storage(key, value) ==
    LET v == EncodeVec(value)
    IN  /\ count_writes[get_callee] < MaxCount
        /\ count_writes' = inc_writes(get_callee)
        /\ cells_per_account' = inc_cells_per_account(get_callee)
        /\ storage' = MapInsert(storage, key, v)
        /\ last' = Call("set_contract_storage", key, value, "Ok", <<>>)
        /\ UNCHANGED <<thread_locals, balances, exec_context, logs, count_reads>>

\* A get_contract_storage that hands the engine's KeyNotFound on.
get_contract_storage_outcome_notfound(s, key) ==
    LET r == get_storage_outcome(s, key, ScratchBuffer)
        decoded == DecodeVec(r.out)
    IN  IF r.res # "Ok" THEN [res |-> r.res, out |-> None]
        ELSE IF ~decoded.ok THEN [res |-> "Decode", out |-> None]
        ELSE [res |-> "Ok", out |-> Some(decoded.value)]

\* The outcome of EnvBackend::get_contract_storage on the store s: the match
\* on the result of ext::get_storage, whose panic unwinds through it, and the
\* decode from the whole scratch buffer.
get_contract_storage_outcome(s, key) ==
    LET r == get_storage_outcome(s, key, ScratchBuffer)
        decoded == DecodeVec(r.out)
    IN  IF r.res = "Panic" THEN [res |-> "Panic", out |-> None]
        ELSE IF r.res = "KeyNotFound" THEN [res |-> "Ok", out |-> None]
        ELSE IF r.res # "Ok" THEN [res |-> "Panic", out |-> None]
        ELSE IF ~decoded.ok THEN [res |-> "Decode", out |-> None]
        ELSE [res |-> "Ok", out |-> Some(decoded.value)]

\* EnvBackend::get_contract_storage
get_contract_storage(key) ==
    LET r == get_contract_storage_outcome(storage, key)
    IN  /\ count_reads[get_callee] < MaxCount
        /\ count_reads' = inc_reads(get_callee)
        /\ last' = Read("get_contract_storage", key, <<>>, r.res, r.out)
        /\ UNCHANGED <<thread_locals, env, logs, count_writes, cells_per_account>>

\* EnvBackend::clear_contract_storage: ext::clear_storage of the key.
clear_contract_storage(key) ==
    /\ count_writes[get_callee] < MaxCount
    /\ count_writes' = inc_writes(get_callee)
    /\ cells_per_account' = dec_cells_per_account(get_callee)
    /\ storage' = MapRemove(storage, key)
    /\ last' = Call("clear_contract_storage", key, <<>>, "Ok", <<>>)
    /\ UNCHANGED <<thread_locals, balances, exec_context, logs, count_reads>>

\* Typed values: byte vectors whose encoding is shorter than the scratch
\* buffer, fills it, and is one byte longer than it.
TypedValues == {<<>>, <<5>>, <<6, 7>>, <<1, 2, 3>>}
\* A cell written through ext::set_storage that does not decode as a Vec<u8>:
\* a two-byte compact length cut short.
RawValues == {<<9>>}

NextTyped ==
    \/ \E k \in Keys, v \in TypedValues : set_contract_storage(k, v)
    \/ \E k \in Keys : get_contract_storage(k)
    \/ \E k \in Keys : clear_contract_storage(k)
    \/ \E k \in Keys, v \in RawValues : set_storage(k, v)

SpecTyped == Init /\ [][NextTyped]_vars

\* C30: get_contract_storage(k) returns Ok(None) exactly when k is absent and
\* never an error for the missing key; right after set_contract_storage(k, v)
\* it returns Ok(Some(v)); right after clear_contract_storage(k) it returns
\* Ok(None).
C30_TypedStorageRoundTrip ==
    [][last'.op = "get_contract_storage"
        => /\ (last'.res = "Ok" /\ last'.out = None)
                <=> last'.a1 \notin DOMAIN storage
           /\ last'.res # "KeyNotFound"
           /\ (last.op = "set_contract_storage" /\ last.a1 = last'.a1)
                => last'.res = "Ok" /\ last'.out = Some(last.a2)
           /\ (last.op = "clear_contract_storage" /\ last.a1 = last'.a1)
                => last'.res = "Ok" /\ last'.out = None]_vars

\* C30, amended: get_contract_storage(k) returns Ok(None) exactly when k is
\* absent and never an error for the missing key; right after
\* set_contract_storage(k, v) it returns Ok(Some(v)) when the encoding of v
\* fits the scratch buffer and unwinds when it does not; right after
\* clear_contract_storage(k) it returns Ok(None).
C30_TypedStorageRoundTripInBuffer ==
    [][last'.op = "get_contract_storage"
        => /\ (last'.res = "Ok" /\ last'.out = None)
                <=> last'.a1 \notin DOMAIN storage
           /\ last'.res # "KeyNotFound"
           /\ (last.op = "set_contract_storage" /\ last.a1 = last'.a1)
                => IF Len(EncodeVec(last.a2)) <= Len(ScratchBuffer)
                   THEN last'.res = "Ok" /\ last'.out = Some(last.a2)
                   ELSE last'.res = "Panic"
           /\ (last.op = "clear_contract_storage" /\ last.a1 = last'.a1)
                => last'.res = "Ok" /\ last'.out = None]_vars

\* A value whose encoding is shorter than the scratch buffer came back whole,
\* with the other key absent.
C30_Witness ==
    /\ last.op = "get_contract_storage" /\ last.after = "set_contract_storage"
    /\ last.res = "Ok" /\ last.out = Some(<<5>>)
    /\ DOMAIN storage = {last.a1}
    /\ storage[last.a1] = <<4, 5>>

\* ------------------------------------------------- specification: host calls
\* Host functions of every group side by side: storage, a context query, a
\* transfer (the executing account has no balance entry: it fails), events
\* (well-formed and malformed topics), println, calls that are unsupported,
\* and the harness's set_caller and clear.
HostTopics == {TopicsOutput(<<<<12>>>>), <<4>>}
HostFns == {"now", "call"}

NextHost ==
    \/ \E a \in ContextAccounts : set_caller(a)
    \/ \E k \in Keys, v \in Values : set_storage(k, v)
    \/ \E k \in Keys : clear_storage(k)
    \/ get_storage(<<66>>, <<0>>)
    \/ caller(<<9, 9, 9>>)
    \/ transfer(Alice, EncodeBalance(1))
    \/ \E t \in HostTopics : deposit_event(t, <<>>)
    \/ \E c \in Printlns : println(c)
    \/ \E fn \in HostFns : unsupported(fn)
    \/ clear_logs

SpecHost == Init /\ [][NextHost]_vars

\* s is a prefix of t.
IsPrefix(s, t) == Len(s) <= Len(t) /\ SubSeq(t, 1, Len(s)) = s

\* C25: after every host-function call, successful, failed or unsupported,
\* the event log before the call is a prefix of the event log after it, and
\* the println log likewise; only the explicit clear removes entries.
C25_LogsAppendOnly ==
    [][last'.op # "clear_logs"
        => /\ IsPrefix(emitted_events, emitted_events')
           /\ IsPrefix(emitted_printlns, emitted_printlns')]_vars

\* An unsupported call unwound with both logs filled.
C25_Witness ==
    /\ last.op = "call" /\ last.res = "Panic"
    /\ Len(emitted_events) = 2 /\ Len(emitted_printlns) = 2
    /\ emitted_printlns[1] # emitted_printlns[2]

\* C28: set_storage(k, v) and clear_storage(k) touch key k only: get_storage
\* of every other key gives the result it gave before, and the execution
\* context and the event and println logs stay as they were.
C28_StorageWritesTouchOneKey ==
    [][last'.op \in {"set_storage", "clear_storage"}
        => /\ \A k \in Keys \ {last'.a1}, b \in Buffers :
                LET before == get_storage_outcome(storage, k, b)
                    after == get_storage_outcome(storage', k, b)
                IN  after.res = before.res /\ after.out = before.out
           /\ exec_context' = exec_context
           /\ UNCHANGED logs]_vars

\* A key was set while the other key was present, the caller was not the
\* default one and both logs held entries.
C28_Witness ==
    /\ last.op = "set_storage"
    /\ DOMAIN storage = Keys
    /\ exec_context.caller = Alice
    /\ Len(emitted_events) = 1 /\ Len(emitted_printlns) = 1

\* ------------------------------------------------------- exec_context: reset
\* A reset that leaves the transferred value as it was.
reset_outcome_keep_value(ctx) ==
    [caller |-> DefaultAccount, callee |-> DefaultAccount,
     value_transferred |-> ctx.value_transferred]

\* The context after ExecContext::reset: each field is assigned its default.
reset_outcome(ctx) ==
    [caller |-> DefaultAccount, callee |-> DefaultAccount, value_transferred |-> 0]

\* ExecContext::reset, called by the harness; the call records the caller,
\* the callee and the transferred value it found.
reset ==
    /\ exec_context' = reset_outcome(exec_context)
    /\ last' = Call("reset", <<exec_context.caller, exec_context.callee>>,
                    EncodeBalance(exec_context.value_transferred), "Ok", <<>>)
    /\ UNCHANGED <<thread_locals, storage, balances, rec>>

\* The harness's calls that write the execution context.
ContextSetters == {"set_caller", "set_callee", "set_value_transferred", "reset"}

\* ------------------------------------------------------ specification: reset
\* The harness sets the context, funds the default account and resets; host
\* functions of every group run in between.
NextReset ==
    \/ set_caller(Alice)
    \/ set_callee(Alice)
    \/ set_value_transferred(1)
    \/ set_balance(DefaultAccount, 1)
    \/ reset
    \/ set_storage(<<66>>, <<5>>)
    \/ address(<<9, 9, 9>>)
    \/ transfer(Alice, EncodeBalance(1))
    \/ \E t \in HostTopics : deposit_event(t, <<>>)
    \/ \E fn \in HostFns : unsupported(fn)

SpecReset == Init /\ [][NextReset]_vars

\* C31: reset sets caller and callee to the all-zero account id and the
\* transferred value to 0, a second reset changes nothing, and reset leaves
\* the store, the balances, the logs and the counters as they were; no call
\* other than the harness's setters and reset changes the execution context.
C31_ResetSetsDefaultsOnly ==
    [][/\ last'.op = "reset"
            => /\ exec_context'.caller = DefaultAccount
               /\ exec_context'.callee = DefaultAccount
               /\ exec_context'.value_transferred = 0
               /\ reset_outcome(exec_context') = exec_context'
               /\ UNCHANGED <<thread_locals, storage, balances, rec>>
       /\ last'.op \notin ContextSetters
            => exec_context' = exec_context]_vars

\* A reset found caller and callee set to Alice and a transferred value of 1,
\* with a stored cell, a funded account and an event in the log.
C31_Witness ==
    /\ last.op = "reset"
    /\ last.a1 = <<Alice, Alice>> /\ last.a2 = EncodeBalance(1)
    /\ exec_context = ExecContextDefault
    /\ DOMAIN storage = {<<66>>}
    /\ DefaultAccount \in DOMAIN balances
    /\ Len(emitted_events) = 1
    /\ count_writes[Alice] = 1

\* ------------------------------------------------------ specification: storage
StorageAccounts == {DefaultAccount, Alice}

NextStorage ==
    \/ \E a \in StorageAccounts : set_callee(a)
    \/ \E k \in Keys, v \in Values : set_storage(k, v)
    \/ \E k \in Keys : clear_storage(k)
    \/ \E k \in Keys, b \in Buffers : get_storage(k, b)

SpecStorage == Init /\ [][NextStorage]_vars

\* C1: get_storage(k) right after set_storage(k, v), into a buffer that holds
\* v, succeeds with v in the prefix of the buffer; right after clear_storage(k)
\* it fails with KeyNotFound; on a fresh environment it fails with KeyNotFound.
C1_StoreLoadClear ==
    [][last'.op = "get_storage" =>
        /\ (last.op = "set_storage" /\ last.a1 = last'.a1
                /\ Len(last.a2) <= Len(last'.a2))
            => /\ last'.res = "Ok"
               /\ SubSeq(last'.out, 1, Len(last.a2)) = last.a2
        /\ (last.op = "clear_storage" /\ last.a1 = last'.a1)
            => last'.res = "KeyNotFound"
        /\ last.op = "new" => last'.res = "KeyNotFound"]_vars

C1_Witness ==
    /\ last.op = "get_storage" /\ last.after = "set_storage"
    /\ last.res = "Ok"
    /\ last.a1 \in DOMAIN storage
    /\ Len(storage[last.a1]) = 2
    /\ SubSeq(last.out, 1, 2) = storage[last.a1]
    /\ last.out # storage[last.a1]

\* The encoded result a successful call writes into its output buffer.
ResultOf(op, key, s, bal, ctx) ==
    CASE op = "get_storage" -> s[key]
      [] op = "caller" -> ctx.caller
      [] op = "address" -> ctx.callee
      [] op = "value_transferred" -> EncodeBalance(ctx.value_transferred)
      [] op = "balance" -> EncodeBalance(bal[ctx.callee])

\* C11: every host function with an output buffer, get_storage included,
\* leaves on success the result in the prefix of the buffer and a view
\* exactly as long as the result.
C11_OutputTruncatedToResult ==
    [][(last'.op \in ContextQueries \cup {"get_storage"} /\ last'.res = "Ok")
        => LET result ==
                   ResultOf(last'.op, last'.a1, storage, balances, exec_context)
           IN  /\ SubSeq(last'.out, 1, Len(result)) = result
               /\ Len(last'.out) = Len(result)]_vars

\* The counter c moved by d for account a and stayed for every other account.
MovedBy(c, d, a) ==
    /\ c'[a] = c[a] + d
    /\ \A b \in Accounts \ {a} : c'[b] = c[b]

\* C17: set_storage succeeds and moves the executing account's write counter
\* and live-cell counter up by one each; clear_storage succeeds and moves its
\* write counter up by one and its live-cell counter down by one; the
\* counters of every other account, and the read counters, stay.
C17_WriteCountersMoveByOne ==
    [][/\ last'.op = "set_storage"
            => /\ last'.res = "Ok"
               /\ MovedBy(count_writes, 1, get_callee)
               /\ MovedBy(cells_per_account, 1, get_callee)
               /\ count_reads' = count_reads
       /\ last'.op = "clear_storage"
            => /\ last'.res = "Ok"
               /\ MovedBy(count_writes, 1, get_callee)
               /\ MovedBy(cells_per_account, -1, get_callee)
               /\ count_reads' = count_reads]_vars

C17_Witness ==
    /\ last.op = "set_storage"
    /\ get_callee = Alice
    /\ count_writes[Alice] = 2 /\ cells_per_account[Alice] = 2
    /\ Cardinality(DOMAIN storage) = 1
    /\ count_writes[DefaultAccount] = 1 /\ cells_per_account[DefaultAccount] = 1

\* C18: get_storage moves the executing account's read counter up by one
\* exactly when the key is found; a miss returns KeyNotFound and leaves the
\* read counter, like the rest of the state, as it was.
C18_ReadCountedOnHitOnly ==
    [][last'.op = "get_storage"
        => /\ MovedBy(count_reads,
                      IF last'.a1 \in DOMAIN storage THEN 1 ELSE 0, get_callee)
           /\ last'.a1 \notin DOMAIN storage
                => last'.res = "KeyNotFound" /\ UNCHANGED <<env, rec>>]_vars

\* C19: clear_storage(k) for a key k that is not present succeeds and leaves
\* the key/value store as it was.
C19_ClearAbsentKeepsStore ==
    [][(last'.op = "clear_storage" /\ last'.a1 \notin DOMAIN storage)
        => last'.res = "Ok" /\ storage' = storage]_vars

\* One write set a key, the next and last cleared another one: the key set
\* is still there.
C19_Witness ==
    /\ last.op = "clear_storage"
    /\ get_callee = DefaultAccount
    /\ count_writes = [a \in Accounts |-> IF a = DefaultAccount THEN 2 ELSE 0]
    /\ cells_per_account[DefaultAccount] = 0
    /\ DOMAIN storage = Keys \ {last.a1}

\* C24: while one account only has written, its live-cell counter is the
\* number of keys present in the store, and it is never negative.
C24_LiveCellsCountKeys ==
    \A a \in Accounts :
        (\A b \in Accounts \ {a} : count_writes[b] = 0)
            => /\ cells_per_account[a] = Cardinality(DOMAIN storage)
               /\ cells_per_account[a] >= 0

\* C29: get_storage of a key whose value is longer than the output buffer
\* unwinds: it returns neither success nor KeyNotFound, hands back no bytes,
\* and leaves the store as it was.
C29_LongValueFailsLoudly ==
    [][(/\ last'.op = "get_storage"
        /\ last'.a1 \in DOMAIN storage
        /\ Len(storage[last'.a1]) > Len(last'.a2))
        => /\ last'.res = "Panic"
           /\ last'.out = <<>>
           /\ storage' = storage]_vars

\* A two-byte value read into a one-byte buffer.
C29_Witness ==
    /\ last.op = "get_storage" /\ last.res = "Panic"
    /\ last.after = "set_storage"
    /\ last.a1 \in DOMAIN storage
    /\ Len(storage[last.a1]) = 2 /\ Len(last.a2) = 1
    /\ count_reads[get_callee] = 1

=============================================================================
